---- MODULE Spec2Model ----
(***************************************************************************)
(* cli-doc-merger: main() discovers PDF documents, sorts them by file      *)
(* name and hands them to merge(), which renumbers every input graph,      *)
(* classifies the objects by /Type, rebuilds one page tree and one         *)
(* catalog, and builds a fresh outline.  (src/src/main.rs)                 *)
(*                                                                         *)
(* Object ids are modelled by their object number; lopdf keeps the         *)
(* generation through renumbering and gives every object its own number,   *)
(* so after the first renumbering the number alone orders and identifies   *)
(* an object.  Every object is a dictionary; an object without /Type       *)
(* stands for everything whose type_name() is an Err.                      *)
(***************************************************************************)
EXTENDS Integers, Sequences, FiniteSets, TLC

\* Longest list of documents discovery may return.
MaxDocs == 2

-----------------------------------------------------------------------------
(* lopdf::Object values, all of one shape so that any two compare *)

NameOf(s) == [kind |-> "Name", s |-> s, ids |-> <<>>]
Reference(i) == [kind |-> "Reference", s |-> "", ids |-> <<i>>]
Array(refs) == [kind |-> "Array", s |-> "", ids |-> refs]
Integer(n) == [kind |-> "Integer", s |-> "", ids |-> <<n>>]

EmptyMap == [x \in {} |-> x]

\* Object::type_name().unwrap_or("")
TypeName(obj) ==
    IF "Type" \in DOMAIN obj /\ obj["Type"].kind = "Name" THEN obj["Type"].s ELSE ""

\* Dictionary::set
DictSet(d, k, v) == (k :> v) @@ d

\* Dictionary::remove
DictRemove(d, k) == [x \in (DOMAIN d) \ {k} |-> d[x]]

\* Dictionary::extend: the entries of other overwrite those of d
DictExtend(d, other) == other @@ d

\* every object id a dictionary refers to
RefsOf(d) ==
    UNION {{d[k].ids[j] : j \in 1..Len(d[k].ids)} :
              k \in {x \in DOMAIN d : d[x].kind \in {"Reference", "Array"}}}

RECURSIVE SortedIds(_)
SortedIds(S) ==
    IF S = {} THEN <<>>
    ELSE LET m == CHOOSE x \in S : \A y \in S : x <= y
         IN <<m>> \o SortedIds(S \ {m})

SeqRange(s) == {s[j] : j \in 1..Len(s)}

-----------------------------------------------------------------------------
(* The input documents discovery can load *)

CatalogObj(pages, lang) ==
    ("Type" :> NameOf("Catalog")) @@ ("Pages" :> Reference(pages)) @@ ("Lang" :> NameOf(lang))
PagesObj(kids) ==
    ("Type" :> NameOf("Pages")) @@ ("Kids" :> Array(kids)) @@ ("Count" :> Integer(Len(kids)))
PageObj(parent) ==
    ("Type" :> NameOf("Page")) @@ ("Parent" :> Reference(parent))

\* two pages, object ids in page order
DocA ==
    [objects |-> (1 :> CatalogObj(2, "A")) @@ (2 :> PagesObj(<<3, 4>>))
                 @@ (3 :> PageObj(2)) @@ (4 :> PageObj(2)),
     root |-> 1]

\* one page, object numbers with gaps
DocB ==
    [objects |-> (2 :> CatalogObj(5, "B")) @@ (5 :> PagesObj(<<9>>))
                 @@ (9 :> PageObj(5)),
     root |-> 2]

\* two pages, the first page holding the larger object id
DocRev ==
    [objects |-> (1 :> CatalogObj(2, "R")) @@ (2 :> PagesObj(<<4, 3>>))
                 @@ (3 :> PageObj(2)) @@ (4 :> PageObj(2)),
     root |-> 1]

\* one page object listed twice in Kids
DocDup ==
    [objects |-> (1 :> CatalogObj(2, "D")) @@ (2 :> PagesObj(<<3, 3>>))
                 @@ (3 :> PageObj(2)),
     root |-> 1]

\* a nested page tree: an intermediate Pages node between root and page
DocNest ==
    [objects |-> (1 :> CatalogObj(2, "N")) @@ (2 :> PagesObj(<<3>>))
                 @@ (3 :> (("Parent" :> Reference(2)) @@ PagesObj(<<4>>)))
                 @@ (4 :> PageObj(3)),
     root |-> 1]

\* no page; an outline tree, and an annotation-like object pointing into it
DocOut ==
    [objects |-> (1 :> (("Outlines" :> Reference(4)) @@ CatalogObj(2, "O")))
                 @@ (2 :> PagesObj(<<>>))
                 @@ (3 :> (("Subtype" :> NameOf("Link")) @@ ("Dest" :> Reference(5))))
                 @@ (4 :> (("Type" :> NameOf("Outlines")) @@ ("First" :> Reference(5))))
                 @@ (5 :> (("Type" :> NameOf("Outline")) @@ ("Parent" :> Reference(4)))),
     root |-> 1]

\* a page tree and a font but neither a Catalog nor a trailer Root
DocNoCat ==
    [objects |-> (1 :> PagesObj(<<2>>)) @@ (2 :> PageObj(1))
                 @@ (3 :> ("Type" :> NameOf("Font"))),
     root |-> 0]

\* a Catalog but no Pages object
DocNoPages ==
    [objects |-> (1 :> (("Type" :> NameOf("Catalog")) @@ ("Lang" :> NameOf("P"))))
                 @@ (2 :> ("Subtype" :> NameOf("Info"))),
     root |-> 1]

\* a graph with no objects
DocEmpty == [objects |-> EmptyMap, root |-> 0]

Shapes == {DocA, DocB, DocRev, DocDup, DocNest, DocOut, DocNoCat, DocNoPages, DocEmpty}

\* file names as their bytes: "a.pdf", "b.pdf"
FileNames == {<<97, 46, 112, 100, 102>>, <<98, 46, 112, 100, 102>>}

Files == [doc : Shapes, name : FileNames]

RECURSIVE SeqsUpTo(_, _)
SeqsUpTo(S, n) ==
    IF n = 0 THEN {<<>>}
    ELSE LET shorter == SeqsUpTo(S, n - 1)
         IN shorter \cup {Append(s, x) : s \in {t \in shorter : Len(t) = n - 1}, x \in S}

-----------------------------------------------------------------------------
(* lopdf operations merge() calls *)

KidsOf(objs, id) ==
    IF id \in DOMAIN objs /\ "Kids" \in DOMAIN objs[id] /\ objs[id]["Kids"].kind = "Array"
    THEN objs[id]["Kids"].ids
    ELSE <<>>

\* the page tree iterator: the Page leaves below kids, left to right
RECURSIVE PageTreeIter(_, _, _)
PageTreeIter(objs, kids, depth) ==
    IF kids = <<>> THEN <<>>
    ELSE LET kid == Head(kids)
             rest == PageTreeIter(objs, Tail(kids), depth)
         IN IF kid \notin DOMAIN objs THEN rest
            ELSE IF TypeName(objs[kid]) = "Page" THEN <<kid>> \o rest
            ELSE IF TypeName(objs[kid]) = "Pages" /\ depth < 256
                 THEN PageTreeIter(objs, KidsOf(objs, kid), depth + 1) \o rest
            ELSE rest

\* Document::get_pages: the k-th element is the object id of page number k
GetPages(doc) ==
    IF doc.root \in DOMAIN doc.objects
       /\ "Pages" \in DOMAIN doc.objects[doc.root]
       /\ doc.objects[doc.root]["Pages"].kind = "Reference"
    THEN PageTreeIter(doc.objects, KidsOf(doc.objects, doc.objects[doc.root]["Pages"].ids[1]), 0)
    ELSE <<>>

\* the new id of every object: the k-th smallest old id becomes starting_id + k - 1
ReplaceMap(objs, starting_id) ==
    LET ids == SortedIds(DOMAIN objs)
    IN [old \in DOMAIN objs |-> starting_id + (CHOOSE k \in 1..Len(ids) : ids[k] = old) - 1]

RewriteId(replace, id) == IF id \in DOMAIN replace THEN replace[id] ELSE id

RewriteDict(replace, d) ==
    [k \in DOMAIN d |->
        IF d[k].kind \in {"Reference", "Array"}
        THEN [d[k] EXCEPT !.ids = [j \in 1..Len(d[k].ids) |-> RewriteId(replace, d[k].ids[j])]]
        ELSE d[k]]

\* the objects re-keyed by replace, every reference inside them rewritten
RenumberedObjects(objs, replace) ==
    [new \in {replace[old] : old \in DOMAIN objs} |->
        RewriteDict(replace, objs[CHOOSE old \in DOMAIN objs : replace[old] = new])]

\* Document::renumber_objects_with
RenumberObjectsWith(doc, starting_id) ==
    LET replace == ReplaceMap(doc.objects, starting_id)
    IN [objects |-> RenumberedObjects(doc.objects, replace),
        root |-> RewriteId(replace, doc.root),
        max_id |-> starting_id + Cardinality(DOMAIN doc.objects) - 1]

RECURSIVE Digits(_)
\* the decimal digits format!("{}", n) prints
Digits(n) == IF n < 10 THEN <<n>> ELSE Digits(n \div 10) \o <<n % 10>>

\* Bookmark::new(format!("Page_{}", pagenum), [0.0, 0.0, 1.0], 0, object_id)
NewBookmark(pagenum, object_id) ==
    [title |-> [prefix |-> "Page_", digits |-> Digits(pagenum)],
     color |-> <<0, 0, 1>>,
     level |-> 0,
     page |-> object_id]

-----------------------------------------------------------------------------
(* docs.sort_by(|(_, a), (_, b)| a.cmp(b)) *)

RECURSIVE StrLess(_, _)
\* a < b for str: byte-wise, a proper prefix first
StrLess(a, b) ==
    IF b = <<>> THEN FALSE
    ELSE IF a = <<>> THEN TRUE
    ELSE IF Head(a) # Head(b) THEN Head(a) < Head(b)
    ELSE StrLess(Tail(a), Tail(b))

\* e goes behind every element that does not compare greater: the sort is stable
InsertByName(sorted, e) ==
    LET before == {k \in 0..Len(sorted) :
                      \A j \in 1..k : ~StrLess(e.name, sorted[j].name)}
        at == CHOOSE k \in before : \A m \in before : m <= k
    IN SubSeq(sorted, 1, at) \o <<e>> \o SubSeq(sorted, at + 1, Len(sorted))

RECURSIVE SortByName(_)
SortByName(s) ==
    IF s = <<>> THEN <<>>
    ELSE InsertByName(SortByName(SubSeq(s, 1, Len(s) - 1)), s[Len(s)])

-----------------------------------------------------------------------------
(* State *)

VARIABLES
    pc,                \* where main() and merge() stand
    found,             \* load_documents_from_path's result, in discovery order
    docs,              \* main's docs after sort_by: the argument of merge
    idx,               \* merge: documents the first loop has consumed
    max_id,            \* merge: the id offset of the next document
    pagenum,           \* merge: the number of the next bookmark
    documents_pages,   \* merge: BTreeMap<ObjectId, Object> of the pages
    documents_objects, \* merge: BTreeMap<ObjectId, Object> of all objects
    bookmarks,         \* document.bookmark_table, in insertion order
    objects,           \* document.objects
    trailer_root,      \* document.trailer "Root" (0: not set)
    catalog_object,    \* merge: Option<(ObjectId, Object)>
    pages_object,      \* merge: Option<(ObjectId, Object)>
    result,            \* what merge returned ("": nothing yet)
    written,           \* how often main saved the output file
    merge_called,      \* whether main called merge
    offsets,           \* history: max_id in force when each document was renumbered
    shifted,           \* history: the object ids of each document after renumbering
    page_lists,        \* history: get_pages() of each renumbered document
    final_replace      \* history: old id -> new id of the closing renumber_objects()

vars == <<pc, found, docs, idx, max_id, pagenum, documents_pages, documents_objects,
          bookmarks, objects, trailer_root, catalog_object, pages_object, result,
          written, merge_called, offsets, shifted, page_lists, final_replace>>

mainVars == <<found, docs, written, merge_called>>
loopVars == <<idx, max_id, pagenum, documents_pages, documents_objects, bookmarks,
              offsets, shifted, page_lists>>

None == [some |-> FALSE, id |-> 0, obj |-> EmptyMap]
SomeOf(id, obj) == [some |-> TRUE, id |-> id, obj |-> obj]

Init ==
    /\ pc = "start"
    /\ found = <<>>
    /\ docs = <<>>
    /\ idx = 0
    /\ max_id = 1
    /\ pagenum = 1
    /\ documents_pages = EmptyMap
    /\ documents_objects = EmptyMap
    /\ bookmarks = <<>>
    /\ objects = EmptyMap
    /\ trailer_root = 0
    /\ catalog_object = None
    /\ pages_object = None
    /\ result = ""
    /\ written = 0
    /\ merge_called = FALSE
    /\ offsets = <<>>
    /\ shifted = <<>>
    /\ page_lists = <<>>
    /\ final_replace = EmptyMap

-----------------------------------------------------------------------------
(* main *)

\* load_documents_from_path: any list of loadable files, in any order
Load ==
    /\ pc = "start"
    /\ \E fs \in SeqsUpTo(Files, MaxDocs) : found' = fs
    /\ pc' = "loaded"
    /\ UNCHANGED <<docs, written, merge_called, loopVars, objects, trailer_root,
                   catalog_object, pages_object, result, final_replace>>

\* if docs.len() == 0 { println!("No PDFs found"); return; }
NoPdfs ==
    /\ pc = "loaded"
    /\ Len(found) = 0
    /\ pc' = "done"
    /\ UNCHANGED <<mainVars, loopVars, objects, trailer_root, catalog_object,
                   pages_object, result, final_replace>>

\* docs.sort_by(..); merge(docs) is entered
Sort ==
    /\ pc = "loaded"
    /\ Len(found) # 0
    /\ docs' = SortByName(found)
    /\ merge_called' = TRUE
    /\ pc' = "merge"
    /\ UNCHANGED <<found, written, loopVars, objects, trailer_root, catalog_object,
                   pages_object, result, final_replace>>

-----------------------------------------------------------------------------
(* merge: the loop over docs_with_names *)

\* the offset left on the last id of the document
NextOffsetSame(doc_max_id) == doc_max_id

\* max_id = doc.max_id + 1
NextOffset(doc_max_id) == doc_max_id + 1

\* the closure without its first flag: a bookmark for every page
BookmarksForEveryPage(pages, n) ==
    [k \in 1..Len(pages) |-> NewBookmark(n, pages[k])]

\* the closure over get_pages(): a bookmark for the first page only
BookmarksFor(pages, n) ==
    IF pages = <<>> THEN <<>> ELSE <<NewBookmark(n, pages[1])>>

\* pagenum += 1, inside the same if !first
NextPagenum(pages, n) == IF pages = <<>> THEN n ELSE n + 1

\* .collect::<BTreeMap<ObjectId, Object>>() of (object_id, doc.get_object(object_id))
CollectPages(doc, pages) == [id \in SeqRange(pages) |-> doc.objects[id]]

MergeRenumber ==
    /\ pc = "merge"
    /\ idx < Len(docs)
    /\ LET doc == RenumberObjectsWith(docs[idx + 1].doc, max_id)
           pages == GetPages(doc)
       IN /\ max_id' = NextOffset(doc.max_id)
          /\ bookmarks' = bookmarks \o BookmarksFor(pages, pagenum)
          /\ pagenum' = NextPagenum(pages, pagenum)
          /\ documents_pages' = CollectPages(doc, pages) @@ documents_pages
          /\ documents_objects' = doc.objects @@ documents_objects
          /\ offsets' = Append(offsets, max_id)
          /\ shifted' = Append(shifted, DOMAIN doc.objects)
          /\ page_lists' = Append(page_lists, pages)
    /\ idx' = idx + 1
    /\ UNCHANGED <<pc, mainVars, objects, trailer_root, catalog_object, pages_object,
                   result, final_replace>>

-----------------------------------------------------------------------------
(* merge: the loop over documents_objects *)

\* "Catalog" => the id of the first, the object at hand
ClassifyCatalog(cat, id, obj) ==
    SomeOf(IF cat.some THEN cat.id ELSE id, obj)

\* "Pages" => the id of the first, the dictionary at hand extended by the one kept
ClassifyPages(pgs, id, obj) ==
    SomeOf(IF pgs.some THEN pgs.id ELSE id,
           IF pgs.some THEN DictExtend(obj, pgs.obj) ELSE obj)

\* the match without its "Catalog" and "Pages" arms
IsCopiedAlsoRoots(obj) == TypeName(obj) \notin {"Page", "Outlines", "Outline"}

\* whether the match arm inserts the object into document.objects
IsCopied(obj) == TypeName(obj) \notin {"Catalog", "Pages", "Page", "Outlines", "Outline"}

ClassifyOne(st, id, obj) ==
    [catalog |-> IF TypeName(obj) = "Catalog"
                 THEN ClassifyCatalog(st.catalog, id, obj) ELSE st.catalog,
     pages |-> IF TypeName(obj) = "Pages"
               THEN ClassifyPages(st.pages, id, obj) ELSE st.pages,
     objects |-> IF IsCopied(obj) THEN (id :> obj) @@ st.objects ELSE st.objects]

RECURSIVE Classify(_, _, _)
\* the objects of pool in the order of ids
Classify(st, pool, ids) ==
    IF ids = <<>> THEN st
    ELSE Classify(ClassifyOne(st, Head(ids), pool[Head(ids)]), pool, Tail(ids))

MergeClassify ==
    /\ pc = "merge"
    /\ idx = Len(docs)
    /\ LET st == Classify([catalog |-> catalog_object, pages |-> pages_object,
                           objects |-> objects],
                          documents_objects, SortedIds(DOMAIN documents_objects))
       IN /\ catalog_object' = st.catalog
          /\ pages_object' = st.pages
          /\ objects' = st.objects
    /\ pc' = "check_pages"
    /\ UNCHANGED <<mainVars, loopVars, trailer_root, result, final_replace>>

\* if pages_object.is_none() { return Err("Pages root not found"); }
MissingPages ==
    /\ pc = "check_pages"
    /\ ~pages_object.some
    /\ result' = "Pages root not found"
    /\ pc' = "returned"
    /\ UNCHANGED <<mainVars, loopVars, objects, trailer_root, catalog_object,
                   pages_object, final_replace>>

\* every collected page gets the surviving Pages as Parent and goes into the pool
InsertPages ==
    /\ pc = "check_pages"
    /\ pages_object.some
    /\ objects' = [id \in DOMAIN documents_pages |->
                      DictSet(documents_pages[id], "Parent", Reference(pages_object.id))]
                  @@ objects
    /\ pc' = "check_catalog"
    /\ UNCHANGED <<mainVars, loopVars, trailer_root, catalog_object, pages_object,
                   result, final_replace>>

\* the second check returning the message of the first
MissingCatalogAsPages ==
    /\ pc = "check_catalog"
    /\ ~catalog_object.some
    /\ result' = "Pages root not found"
    /\ pc' = "returned"
    /\ UNCHANGED <<mainVars, loopVars, objects, trailer_root, catalog_object,
                   pages_object, final_replace>>

\* if catalog_object.is_none() { return Err("Catalog root not found."); }
MissingCatalog ==
    /\ pc = "check_catalog"
    /\ ~catalog_object.some
    /\ result' = "Catalog root not found."
    /\ pc' = "returned"
    /\ UNCHANGED <<mainVars, loopVars, objects, trailer_root, catalog_object,
                   pages_object, final_replace>>

\* Count and Kids from documents_pages, in the order of its keys
NewPages(dict, pages) ==
    DictSet(DictSet(dict, "Count", Integer(Cardinality(DOMAIN pages))),
            "Kids", Array(SortedIds(DOMAIN pages)))

BuildPages ==
    /\ pc = "check_catalog"
    /\ catalog_object.some
    /\ objects' = (pages_object.id :> NewPages(pages_object.obj, documents_pages))
                  @@ objects
    /\ pc' = "build_catalog"
    /\ UNCHANGED <<mainVars, loopVars, trailer_root, catalog_object, pages_object,
                   result, final_replace>>

\* Pages set, Outlines removed
NewCatalog(dict, pages_id) ==
    DictRemove(DictSet(dict, "Pages", Reference(pages_id)), "Outlines")

BuildCatalog ==
    /\ pc = "build_catalog"
    /\ objects' = (catalog_object.id :> NewCatalog(catalog_object.obj, pages_object.id))
                  @@ objects
    /\ trailer_root' = catalog_object.id
    /\ pc' = "finalize"
    /\ UNCHANGED <<mainVars, loopVars, catalog_object, pages_object, result,
                   final_replace>>

-----------------------------------------------------------------------------
(* merge: the closing passes *)

\* Document::adjust_zero_pages: a bookmark on page id 0 takes its first child's
\* page; the bookmarks merge adds have no children
AdjustZeroPages(bms) == bms

\* Document::build_outline: a root Outlines dictionary and one item per bookmark,
\* chained by First/Last/Next/Prev/Parent, under fresh ids above max
BuildOutline(bms, max) ==
    LET n == Len(bms)
        root == max + 1
        item(k) ==
            [key \in {"Title", "Parent", "Dest"}
                     \cup (IF k < n THEN {"Next"} ELSE {})
                     \cup (IF k > 1 THEN {"Prev"} ELSE {}) |->
                CASE key = "Title" ->
                        [kind |-> "String", s |-> bms[k].title.prefix,
                         ids |-> bms[k].title.digits]
                  [] key = "Parent" -> Reference(root)
                  [] key = "Dest" -> Array(<<bms[k].page>>)
                  [] key = "Next" -> Reference(root + k + 1)
                  [] OTHER -> Reference(root + k - 1)]
    IN IF n = 0 THEN [some |-> FALSE, root |-> 0, objects |-> EmptyMap]
       ELSE [some |-> TRUE, root |-> root,
             objects |-> (root :> (("Type" :> NameOf("Outlines"))
                                   @@ ("First" :> Reference(root + 1))
                                   @@ ("Last" :> Reference(root + n))
                                   @@ ("Count" :> Integer(n))))
                         @@ [id \in (root + 1)..(root + n) |-> item(id - root)]]

\* if let Ok(x) = document.get_object_mut(catalog_object.0) { dict.set("Outlines", n) }
AttachOutline(pool, catalog_id, outline) ==
    IF outline.some /\ catalog_id \in DOMAIN pool
    THEN (catalog_id :> DictSet(pool[catalog_id], "Outlines", Reference(outline.root)))
         @@ pool
    ELSE pool

Finalize ==
    /\ pc = "finalize"
    /\ LET replace == ReplaceMap(objects, 1)
           renumbered == RenumberObjectsWith([objects |-> objects, root |-> trailer_root], 1)
           moved == [k \in 1..Len(bookmarks) |->
                        [bookmarks[k] EXCEPT !.page = RewriteId(replace, @)]]
           adjusted == AdjustZeroPages(moved)
           outline == BuildOutline(adjusted, renumbered.max_id)
       IN /\ objects' = AttachOutline(outline.objects @@ renumbered.objects,
                                      catalog_object.id, outline)
          /\ trailer_root' = renumbered.root
          /\ bookmarks' = adjusted
          /\ final_replace' = replace
    /\ result' = "Ok"
    /\ pc' = "returned"
    /\ UNCHANGED <<mainVars, idx, max_id, pagenum, documents_pages, documents_objects,
                   offsets, shifted, page_lists, catalog_object, pages_object>>

-----------------------------------------------------------------------------
(* main: match merged_doc *)

\* Ok(mut merged_doc) => merged_doc.save(merged_file_path)
Save ==
    /\ pc = "returned"
    /\ result = "Ok"
    /\ written' = written + 1
    /\ pc' = "done"
    /\ UNCHANGED <<found, docs, merge_called, loopVars, objects, trailer_root,
                   catalog_object, pages_object, result, final_replace>>

\* the Err arm saving as the Ok arm does
ReportErrorAndSave ==
    /\ pc = "returned"
    /\ result # "Ok"
    /\ written' = written + 1
    /\ pc' = "done"
    /\ UNCHANGED <<found, docs, merge_called, loopVars, objects, trailer_root,
                   catalog_object, pages_object, result, final_replace>>

\* Err(error_message) => println!("{}", error_message)
ReportError ==
    /\ pc = "returned"
    /\ result # "Ok"
    /\ pc' = "done"
    /\ UNCHANGED <<mainVars, loopVars, objects, trailer_root, catalog_object,
                   pages_object, result, final_replace>>

Next ==
    \/ Load
    \/ NoPdfs
    \/ Sort
    \/ MergeRenumber
    \/ MergeClassify
    \/ MissingPages
    \/ InsertPages
    \/ MissingCatalog
    \/ BuildPages
    \/ BuildCatalog
    \/ Finalize
    \/ Save
    \/ ReportError

Spec == Init /\ [][Next]_vars

-----------------------------------------------------------------------------
(* What the properties speak of *)

RECURSIVE Concat(_)
Concat(lists) ==
    IF lists = <<>> THEN <<>>
    ELSE Concat(SubSeq(lists, 1, Len(lists) - 1)) \o lists[Len(lists)]

\* no document's page tree lists a page object twice
NoPageTwice ==
    \A i \in 1..Len(page_lists) :
        Cardinality(SeqRange(page_lists[i])) = Len(page_lists[i])

\* merge has built the surviving Pages object
PagesBuilt == pc \in {"build_catalog", "finalize"} \/ result = "Ok"

\* the id an object of the pool has now: the closing renumbering moves it
Final(id) == IF result = "Ok" THEN final_replace[id] ELSE id

SurvivingPages == objects[Final(pages_object.id)]

TypedIds(pool, type) == {id \in DOMAIN pool : TypeName(pool[id]) = type}

First(S) == CHOOSE x \in S : \A y \in S : x <= y

HasType(doc, type) == TypedIds(doc.objects, type) # {}

NoCatalogInput == \A k \in 1..Len(docs) : ~HasType(docs[k].doc, "Catalog")
SomePagesInput == \E k \in 1..Len(docs) : HasType(docs[k].doc, "Pages")

Returned == pc \in {"returned", "done"} /\ merge_called

\* the lists of found in every order discovery may produce them
DiscoveryOrders ==
    {[k \in 1..Len(found) |-> found[p[k]]] : p \in Permutations(1..Len(found))}

RECURSIVE ContributingBookmarks(_)
\* one bookmark for each non-empty page list, numbered from 1
ContributingBookmarks(lists) ==
    IF lists = <<>> THEN <<>>
    ELSE LET before == ContributingBookmarks(SubSeq(lists, 1, Len(lists) - 1))
             pages == lists[Len(lists)]
         IN IF pages = <<>> THEN before
            ELSE Append(before,
                        [title |-> [prefix |-> "Page_",
                                    digits |-> <<Len(before) + 1>>],
                         color |-> <<0, 0, 1>>, level |-> 0, page |-> pages[1]])

-----------------------------------------------------------------------------
(* Properties *)

\* C1: the Kids of the surviving Pages object list the pages document by
\* document in merge order and, inside a document, in the order of its page
\* numbers.  (Stated for documents that list no page twice: what becomes of a
\* repeated page is C2's matter.)
C1_KidsInPageOrder ==
    (PagesBuilt /\ NoPageTwice) =>
        SurvivingPages["Kids"].ids
            = [k \in 1..Len(Concat(page_lists)) |-> Final(Concat(page_lists)[k])]

\* C2: Count of the surviving Pages object equals the length of its Kids, and
\* both equal the sum of the documents' page counts (the sizes of get_pages()).
C2_CountIsSumOfPages ==
    PagesBuilt =>
        /\ SurvivingPages["Count"].ids[1] = Len(SurvivingPages["Kids"].ids)
        /\ Len(SurvivingPages["Kids"].ids) = Len(Concat(page_lists))

\* C3: when every input document holds a Catalog and a Pages object, merge
\* returns Ok and the returned pool holds exactly one Catalog and one Pages
\* object, each under the id of the first one encountered.
C3_OneCatalogOnePages ==
    (Returned /\ \A k \in 1..Len(docs) :
                    HasType(docs[k].doc, "Catalog") /\ HasType(docs[k].doc, "Pages")) =>
        /\ result = "Ok"
        /\ TypedIds(objects, "Catalog")
              = {Final(First(TypedIds(documents_objects, "Catalog")))}
        /\ TypedIds(objects, "Pages")
              = {Final(First(TypedIds(documents_objects, "Pages")))}

C3_Witness ==
    /\ pc = "done"
    /\ result = "Ok"
    /\ Len(docs) = 2
    /\ docs[1].doc = DocNest
    /\ docs[2].doc = DocB
    /\ Cardinality(TypedIds(documents_objects, "Catalog")) = 2
    /\ Cardinality(TypedIds(documents_objects, "Pages")) = 3
    /\ Cardinality(TypedIds(objects, "Pages")) = 1

\* C4 as claimed: without a Catalog in any input, merge returns the
\* MissingCatalog error and nothing is written.
C4_AlwaysMissingCatalog ==
    (Returned /\ NoCatalogInput) =>
        /\ result = "Catalog root not found."
        /\ written = 0

\* C4 as amended: without a Catalog in any input, merge returns an error and
\* nothing is written; the error is MissingCatalog when some input holds a
\* Pages object and MissingPages when none does.
C4_MissingCatalogAfterPages ==
    (Returned /\ NoCatalogInput) =>
        /\ result = IF SomePagesInput THEN "Catalog root not found."
                    ELSE "Pages root not found"
        /\ written = 0

C4_Witness ==
    /\ pc = "done"
    /\ NoCatalogInput
    /\ SomePagesInput
    /\ result = "Catalog root not found."
    /\ written = 0

\* C5: every reference held by an object of the returned pool names an id of
\* that pool.
C5_NoDanglingReference ==
    result = "Ok" => \A id \in DOMAIN objects : RefsOf(objects[id]) \subseteq DOMAIN objects

\* C6: whatever order discovery returns the same files in, the sorted list
\* handed to merge is the same.
C6_SortedOrderIsUnique ==
    merge_called => \A other \in DiscoveryOrders : SortByName(other) = docs

\* C7: merge registers one bookmark per document with at least one page, in
\* merge order, labelled Page_k with k counting those documents from 1, level 0,
\* the fixed colour, on the document's first page.
C7_OneBookmarkPerContributingDocument ==
    LET expected == ContributingBookmarks(page_lists)
    IN bookmarks = [k \in 1..Len(expected) |->
                       [expected[k] EXCEPT !.page = Final(@)]]

C7_Witness ==
    /\ pc = "merge"
    /\ idx = 2
    /\ docs[1].doc = DocA
    /\ docs[2].doc = DocB
    /\ page_lists = <<(<<3, 4>>), (<<7>>)>>
    /\ bookmarks = <<NewBookmark(1, 3), NewBookmark(2, 7)>>

\* a document without pages registers nothing and leaves the counter alone
C7_WitnessZeroPages ==
    /\ pc = "merge"
    /\ idx = 2
    /\ docs[1].doc = DocOut
    /\ docs[2].doc = DocB
    /\ Len(bookmarks) = 1
    /\ bookmarks[1].title.digits = <<1>>
    /\ bookmarks[1].page = 8

\* C8: main writes the output at most once and only after merge returned Ok;
\* with no document found merge is not called and nothing is written; after a
\* structural error nothing is written.
C8_WrittenOnlyAfterOk ==
    /\ written <= 1
    /\ written = 1 => (merge_called /\ result = "Ok")
    /\ Len(found) = 0 => (~merge_called /\ written = 0)
    /\ result \notin {"", "Ok"} => written = 0
    /\ (pc = "done" /\ result = "Ok") => written = 1

C8_Witness ==
    /\ pc = "done"
    /\ result = "Catalog root not found."
    /\ DOMAIN objects # {}
    /\ written = 0

\* C9: the renumbered id sets of two input graphs are disjoint, every id of a
\* graph is at least the offset in force when it was renumbered, and the pool of
\* all objects holds every object of every graph consumed.
C9_ShiftedIdsDisjoint ==
    /\ \A i \in 1..Len(shifted) : \A x \in shifted[i] : x >= offsets[i]
    /\ \A i, j \in 1..Len(shifted) : i < j => shifted[i] \cap shifted[j] = {}
    /\ Cardinality(DOMAIN documents_objects)
          = Len(Concat([k \in 1..idx |-> SortedIds(DOMAIN docs[k].doc.objects)]))
    /\ Len(offsets) = idx /\ Len(shifted) = idx

C9_Witness ==
    /\ idx = 2
    /\ docs[1].doc = DocEmpty
    /\ docs[2].doc = DocB
    /\ offsets = <<1, 1>>
    /\ shifted = <<{}, {1, 2, 3}>>

\* C10: with two or more Catalogs, the surviving Catalog has the id of the
\* first one encountered and that one's dictionary, Pages set to the surviving
\* Pages id and Outlines removed.
C10_FirstCatalogContent ==
    (pc = "finalize" /\ Cardinality(TypedIds(documents_objects, "Catalog")) >= 2) =>
        LET first == First(TypedIds(documents_objects, "Catalog"))
        IN /\ trailer_root = first
           /\ objects[first]
                = DictRemove(DictSet(documents_objects[first], "Pages",
                                     Reference(pages_object.id)), "Outlines")

====
